---- MODULE Spec2Model ----
(***************************************************************************)
(* Model of src/rtd.py, the packed-bed-reactor RTD analyzer: one script    *)
(* run reads the sidebar parameters, takes the uploaded CSV table, checks  *)
(* its columns, and computes one result row and one E(t) curve per run.    *)
(*                                                                         *)
(* Numbers.  A float is a record [k, n, d]: k = "fin" is the rational n/d  *)
(* in lowest terms (d > 0), k = "nan" is not-a-number, k = "inf" is an     *)
(* infinity whose sign is n.  Arithmetic is exact on the finite values     *)
(* (binary rounding, overflow to infinity and the sign of zero are not     *)
(* modelled); division follows numpy's true_divide, which yields inf or    *)
(* nan on a zero divisor instead of raising.  np.pi is the rational 22/7.  *)
(***************************************************************************)
EXTENDS Integers, Sequences, FiniteSets, TLC

\* ------------------------------------------------------------------------
\* Bounds of the model
\* ------------------------------------------------------------------------
MaxRows == 3
MaxSamples == 3
MaxTime == 2

\* ------------------------------------------------------------------------
\* Floating-point values
\* ------------------------------------------------------------------------
Abs(x) == IF x < 0 THEN -x ELSE x

Sign(x) == IF x < 0 THEN -1 ELSE IF x = 0 THEN 0 ELSE 1

RECURSIVE Gcd(_, _)
Gcd(a, b) == IF b = 0 THEN a ELSE Gcd(b, a % b)

\* the rational n/d (d # 0) in lowest terms
Fin(n, d) ==
    LET g == Gcd(Abs(n), Abs(d))
    IN  [k |-> "fin", n |-> Sign(d) * (n \div g), d |-> Abs(d) \div g]

NaN == [k |-> "nan", n |-> 0, d |-> 1]

Inf(s) == [k |-> "inf", n |-> s, d |-> 1]

\* a name that no statement has assigned yet
Unbound == [k |-> "unbound", n |-> 0, d |-> 1]

Zero == Fin(0, 1)

One == Fin(1, 1)

IsFin(x) == x.k = "fin"

IsNaN(x) == x.k = "nan"

IsInf(x) == x.k = "inf"

IsZero(x) == x.k = "fin" /\ x.n = 0

\* x != y on floats: nan differs from everything, itself included
FNe(x, y) == IsNaN(x) \/ IsNaN(y) \/ x # y

FNeg(x) == [x EXCEPT !.n = -x.n]

FAdd(x, y) ==
    IF IsNaN(x) \/ IsNaN(y) THEN NaN
    ELSE IF IsInf(x) /\ IsInf(y) THEN (IF x.n = y.n THEN x ELSE NaN)
    ELSE IF IsInf(x) THEN x
    ELSE IF IsInf(y) THEN y
    ELSE LET g == Gcd(x.d, y.d)
         IN  Fin(x.n * (y.d \div g) + y.n * (x.d \div g), (x.d \div g) * y.d)

FSub(x, y) == FAdd(x, FNeg(y))

FMul(x, y) ==
    IF IsNaN(x) \/ IsNaN(y) THEN NaN
    ELSE IF IsInf(x) \/ IsInf(y)
         THEN (IF IsZero(x) \/ IsZero(y) THEN NaN ELSE Inf(Sign(x.n) * Sign(y.n)))
    ELSE LET g1 == Gcd(Abs(x.n), y.d)
             g2 == Gcd(Abs(y.n), x.d)
         IN  Fin((x.n \div g1) * (y.n \div g2), (x.d \div g2) * (y.d \div g1))

\* numpy true_divide: a zero divisor gives inf (nan for 0/0), never an exception
FDiv(x, y) ==
    IF IsNaN(x) \/ IsNaN(y) THEN NaN
    ELSE IF IsInf(y) THEN (IF IsInf(x) THEN NaN ELSE Zero)
    ELSE IF IsZero(y) THEN (IF IsZero(x) THEN NaN ELSE Inf(Sign(x.n)))
    ELSE IF IsInf(x) THEN Inf(Sign(x.n) * Sign(y.n))
    ELSE FMul(x, Fin(y.d, y.n))

RECURSIVE FPow(_, _)
FPow(x, e) == IF e = 0 THEN One ELSE FMul(x, FPow(x, e - 1))

\* x < y on finite floats
FLt(x, y) == x.n * y.d < y.n * x.d

\* ------------------------------------------------------------------------
\* Array arithmetic (numpy arrays are sequences of floats)
\* ------------------------------------------------------------------------
\* .values of an integer CSV column, as numbers
ToFloat(i) == Fin(i, 1)

RECURSIVE SumSeq(_)
SumSeq(s) == IF s = <<>> THEN Zero ELSE FAdd(Head(s), SumSeq(Tail(s)))

\* scipy.integrate.trapezoid(y, x): sum of diff(x) * (y[1:] + y[:-1]) / 2
trapezoid(y, x) ==
    SumSeq([i \in 1..(Len(x) - 1) |->
              FDiv(FMul(FSub(x[i + 1], x[i]), FAdd(y[i + 1], y[i])), Fin(2, 1))])

\* mutant: the concentrations are passed through without clipping
ClipAtZeroSkipped(a) == a

\* np.clip(a, 0, None)
ClipAtZero(a) == [i \in 1..Len(a) |-> IF FLt(a[i], Zero) THEN Zero ELSE a[i]]

\* np.zeros_like(a)
ZerosLike(a) == [i \in 1..Len(a) |-> Zero]

\* mutant: the division by the total area is not guarded
NormalizeUnguarded(conc, times) ==
    LET area == trapezoid(conc, times)
    IN  [i \in 1..Len(conc) |-> FDiv(conc[i], area)]

\* mutant: the curve is divided by the sum of the samples, not by the integral
NormalizeBySum(conc, times) ==
    LET total == SumSeq(conc)
    IN  IF FNe(total, Zero)
        THEN [i \in 1..Len(conc) |-> FDiv(conc[i], total)]
        ELSE ZerosLike(conc)

\* C / trapezoid(C, t) if trapezoid(C, t) != 0 else np.zeros_like(C)
Normalize(conc, times) ==
    LET area == trapezoid(conc, times)
    IN  IF FNe(area, Zero)
        THEN [i \in 1..Len(conc) |-> FDiv(conc[i], area)]
        ELSE ZerosLike(conc)

\* trapezoid(t * E, t)
FirstMoment(times, curve) ==
    trapezoid([i \in 1..Len(times) |-> FMul(times[i], curve[i])], times)

\* mutant: the second moment is taken about 0 instead of about tau
RawSecondMoment(times, curve, mean) ==
    trapezoid([i \in 1..Len(times) |->
                 FMul(FPow(times[i], 2), curve[i])], times)

\* trapezoid((t - tau) ** 2 * E, t)
CentralMoment(times, curve, mean) ==
    trapezoid([i \in 1..Len(times) |->
                 FMul(FPow(FSub(times[i], mean), 2), curve[i])], times)

\* ------------------------------------------------------------------------
\* Rounding and formatting of the reported values
\* ------------------------------------------------------------------------
\* nearest integer to the rational n/d (d > 0), ties to even
Rint(n, d) ==
    LET q == (2 * n + d) \div (2 * d)
    IN  IF (2 * n + d) % (2 * d) = 0 /\ q % 2 # 0 THEN q - 1 ELSE q

\* round(x, 2): nan and inf stay as they are
Round2(x) == IF IsFin(x) THEN Fin(Rint(100 * x.n, x.d), 100) ELSE x

\* a formatted number: the digits m scaled by ten to the e, or "nan" / "inf"
Str(k, m, e) == [k |-> k, m |-> m, e |-> e]

\* f"{x:.2f}"
Format2f(x) ==
    IF IsFin(x) THEN Str("fin", Rint(100 * x.n, x.d), -2)
    ELSE Str(x.k, x.n, 0)

\* the decimal exponent e with 10^e <= n/d < 10^(e+1), for n/d > 0
RECURSIVE Exp10(_, _)
Exp10(n, d) ==
    IF n < d THEN Exp10(10 * n, d) - 1
    ELSE IF n >= 10 * d THEN Exp10(n, 10 * d) + 1
    ELSE 0

RECURSIVE Pow10(_)
Pow10(e) == IF e = 0 THEN 1 ELSE 10 * Pow10(e - 1)

\* f"{x:.2e}": three significant digits and the exponent
Format2e(x) ==
    IF ~IsFin(x) THEN Str(x.k, x.n, 0)
    ELSE IF x.n = 0 THEN Str("fin", 0, -2)
    ELSE LET e == Exp10(Abs(x.n), x.d)
             m == IF e >= 0 THEN Rint(100 * Abs(x.n), x.d * Pow10(e))
                            ELSE Rint(100 * Pow10(-e) * Abs(x.n), x.d)
         IN  IF m = 1000 THEN Str("fin", Sign(x.n) * 100, e - 1)
                         ELSE Str("fin", Sign(x.n) * m, e - 2)

\* ------------------------------------------------------------------------
\* The CSV table
\* ------------------------------------------------------------------------
\* A column name is a sequence of characters; " " is whitespace and every
\* other character sequence of a name is kept as one token.
TimeCol == <<"Time (s)">>

ConcCol == <<"Concentration (C)">>

FlowCol == <<"Flow Rate (mL/min)">>

RunCol == <<"Run">>

required_cols == <<TimeCol, ConcCol, FlowCol, RunCol>>

\* str.strip(): drop the leading and the trailing whitespace
RECURSIVE LStrip(_)
LStrip(col) ==
    IF col # <<>> /\ Head(col) = " " THEN LStrip(Tail(col)) ELSE col

RECURSIVE RStrip(_)
RStrip(col) ==
    IF col # <<>> /\ col[Len(col)] = " "
    THEN RStrip(SubSeq(col, 1, Len(col) - 1))
    ELSE col

Strip(col) == RStrip(LStrip(col))

\* df.columns = [col.strip() for col in df.columns]
StripColumns(file) ==
    [columns |-> [i \in 1..Len(file.columns) |-> Strip(file.columns[i])],
     rows    |-> file.rows]

HasColumn(frame, col) == \E i \in 1..Len(frame.columns) : frame.columns[i] = col

\* mutant: the first required column is left out of the check
HasRequiredColumnsButFirst(frame) ==
    \A j \in 2..Len(required_cols) : HasColumn(frame, required_cols[j])

\* all(col in df.columns for col in required_cols)
HasRequiredColumns(frame) ==
    \A j \in 1..Len(required_cols) : HasColumn(frame, required_cols[j])

ColumnIndex(frame, col) ==
    CHOOSE i \in 1..Len(frame.columns) : frame.columns[i] = col

\* frame[col].values
Column(frame, col) ==
    [r \in 1..Len(frame.rows) |-> frame.rows[r][ColumnIndex(frame, col)]]

\* mutant: the distinct values in ascending order, as np.unique returns them
RECURSIVE SortedUnique(_)
SortedUnique(s) ==
    IF s = <<>> THEN <<>>
    ELSE LET least == CHOOSE x \in {s[i] : i \in 1..Len(s)} :
                         \A i \in 1..Len(s) : x <= s[i]
         IN  <<least>> \o SortedUnique(SelectSeq(s, LAMBDA y : y # least))

\* Series.unique(): the distinct values in the order of their first appearance
RECURSIVE Unique(_)
Unique(s) ==
    IF s = <<>> THEN <<>>
    ELSE LET init == Unique(SubSeq(s, 1, Len(s) - 1))
             last == s[Len(s)]
         IN  IF \E i \in 1..Len(init) : init[i] = last
             THEN init
             ELSE Append(init, last)

\* df[df['Run'] == run_id]: the rows of one run, in file order
RunData(frame, id) ==
    [columns |-> frame.columns,
     rows    |-> SelectSeq(frame.rows,
                           LAMBDA row : row[ColumnIndex(frame, RunCol)] = id)]

\* mutant: the flow rate of the last row of the run
FlowRateOfLastRow(run_data) ==
    Column(run_data, FlowCol)[Len(run_data.rows)]

\* run_data['Flow Rate (mL/min)'].values[0]
FlowRateOf(run_data) == Column(run_data, FlowCol)[1]

\* ------------------------------------------------------------------------
\* Derived quantities of one run
\* ------------------------------------------------------------------------
\* np.pi
Pi == Fin(22, 7)

\* 1e6 * 60
MlPerMinToM3PerS == 60000000

\* A = np.pi * (D / 2) ** 2
CrossSectionArea(diameter) == FMul(Pi, FPow(FDiv(diameter, Fin(2, 1)), 2))

\* Q = Q_mL_min / (1e6 * 60)
VolumetricFlow(flow) == FDiv(ToFloat(flow), Fin(MlPerMinToM3PerS, 1))

\* v = Q / A
SuperficialVelocity(flowQ, area) == FDiv(flowQ, area)

\* mutant: the guard on v is missing
AxialDispersionUnguarded(variance, vel) ==
    FDiv(FMul(variance, FPow(vel, 3)), Fin(2, 1))

\* D_ax = (sigma_squared * v ** 3) / 2 if v != 0 else np.nan
AxialDispersion(variance, vel) ==
    IF FNe(vel, Zero)
    THEN FDiv(FMul(variance, FPow(vel, 3)), Fin(2, 1))
    ELSE NaN

\* Pe = (L * v) / D_ax if D_ax != 0 else np.nan
Peclet(len, vel, dax) ==
    IF FNe(dax, Zero) THEN FDiv(FMul(len, vel), dax) ELSE NaN

\* tau_0 = (epsilon * A * L) / Q if Q != 0 else np.nan
SpaceTime(eps, area, len, flowQ) ==
    IF FNe(flowQ, Zero) THEN FDiv(FMul(FMul(eps, area), len), flowQ) ELSE NaN

\* Re = (Dp * v * rho) / ((1 - epsilon) * mu) if mu != 0 else np.nan
Reynolds(dp, vel, dens, eps, visc) ==
    IF FNe(visc, Zero)
    THEN FDiv(FMul(FMul(dp, vel), dens), FMul(FSub(One, eps), visc))
    ELSE NaN

\* the dictionary appended to results
ResultRow(id, flow, mean, variance, dax, pe, tau0, re) ==
    [Run               |-> id,
     FlowRate          |-> flow,
     MeanResidenceTime |-> Round2(mean),
     Variance          |-> Round2(variance),
     AxialDispersion   |-> Format2e(dax),
     Peclet            |-> Format2f(pe),
     SpaceTime         |-> Round2(tau0),
     Reynolds          |-> Format2f(re)]

\* the names of the result columns, in the order of the dictionary
ResultColumns ==
    <<"Run", "Flow Rate (mL/min)", "Mean Residence Time (s)", "Variance (s2)",
      "Axial Dispersion Coefficient (m2/s)", "Peclet Number",
      "Space Time tau0 (s)", "Reynolds Number">>

\* a float cell of the CSV export: pandas writes a missing number as nothing
CsvNumber(x) == IF IsNaN(x) THEN Str("empty", 0, 0) ELSE x

\* results_df.to_csv(index=False): the header line and one line per row
ToCsv(table) ==
    [header |-> IF table = <<>> THEN <<>> ELSE ResultColumns,
     lines  |-> [i \in 1..Len(table) |->
                   <<table[i].Run, table[i].FlowRate,
                     CsvNumber(table[i].MeanResidenceTime),
                     CsvNumber(table[i].Variance),
                     table[i].AxialDispersion, table[i].Peclet,
                     CsvNumber(table[i].SpaceTime), table[i].Reynolds>>]]

\* ------------------------------------------------------------------------
\* Inputs: the sidebar values and the uploaded files that are enumerated
\* ------------------------------------------------------------------------
Widgets(d, eps, visc) ==
    [D |-> d, L |-> Fin(1, 10), epsilon |-> eps, Dp |-> Fin(3, 10000),
     mu |-> visc, rho |-> Fin(1000, 1)]

DefaultWidgets == Widgets(Fin(1, 500), Fin(1, 3), Fin(1, 1000))

\* porosity is held in [0, 1] by the widget; the other inputs are free
Sidebars ==
    {Widgets(d, eps, visc) : d \in {Zero, Fin(1, 500)},
                             eps \in {Fin(1, 3), One},
                             visc \in {Zero, Fin(1, 1000)}}

Runs == {1, 2}

Flows == {0, 60}

Concentrations == {-1, 0, 1}

\* Rows <<time, concentration, flow, run>> of several runs, possibly
\* interleaved and with flow rates that change inside a run; the sample
\* clock is the row number and the tracer signal is constant.
GroupTable(fr) == [i \in 1..Len(fr) |-> <<i - 1, 1, fr[i][1], fr[i][2]>>]

\* Rows of a single run at one flow rate, with free times (sorted or not)
\* and free concentrations
TraceTable(tc, q) == [i \in 1..Len(tc) |-> <<tc[i][1], tc[i][2], q, 1>>]

\* the column names of a file: padded with whitespace or not, and with
\* column number drop left out (0: none)
Pad(col, pad) == IF pad THEN <<" ">> \o col \o <<" ", " ">> ELSE col

Without(s, j) == [i \in 1..(Len(s) - (IF j \in 1..Len(s) THEN 1 ELSE 0)) |->
                    IF j = 0 \/ i < j THEN s[i] ELSE s[i + 1]]

CsvFile(pad, drop, rows) ==
    [present |-> TRUE,
     columns |-> Without([i \in 1..4 |-> Pad(required_cols[i], pad)], drop),
     rows    |-> [r \in 1..Len(rows) |-> Without(rows[r], drop)]]

\* nothing uploaded yet
NoFile == [present |-> FALSE, columns |-> <<>>, rows |-> <<>>]

\* ------------------------------------------------------------------------
\* State
\* ------------------------------------------------------------------------
VARIABLES
    pc,             \* position of the script
    D, L, epsilon, Dp, mu, rho, A,     \* sidebar inputs and the area
    uploaded_file,  \* the file given to the uploader
    df,             \* the table read from it, column names stripped
    error,          \* st.error has reported the missing columns
    results, plots, \* the rows and the curves collected so far
    run_ids,        \* df['Run'].unique(), the runs still to be processed
    run_id, t, C, Q_mL_min, Q, v, E, tau, sigma_squared, D_ax, Pe, tau_0, Re,
    results_df, csv_data    \* the displayed table and the download payload

sidebar == <<D, L, epsilon, Dp, mu, rho, A>>

locals == <<run_id, t, C, Q_mL_min, Q, v, E, tau, sigma_squared, D_ax, Pe,
            tau_0, Re>>

outputs == <<results_df, csv_data>>

vars == <<pc, sidebar, uploaded_file, df, error, results, plots, run_ids,
          locals, outputs>>

NoFrame == [columns |-> <<>>, rows |-> <<>>]

NotShown == [shown |-> FALSE, rows |-> <<>>]

NoPayload == [shown |-> FALSE, header |-> <<>>, lines |-> <<>>]

Init ==
    /\ pc = "start"
    /\ D = Unbound /\ L = Unbound /\ epsilon = Unbound /\ Dp = Unbound
    /\ mu = Unbound /\ rho = Unbound /\ A = Unbound
    /\ uploaded_file = NoFile
    /\ df = NoFrame
    /\ error = FALSE
    /\ results = <<>> /\ plots = <<>> /\ run_ids = <<>>
    /\ run_id = 0 /\ t = <<>> /\ C = <<>> /\ Q_mL_min = 0
    /\ Q = Unbound /\ v = Unbound /\ E = <<>> /\ tau = Unbound
    /\ sigma_squared = Unbound /\ D_ax = Unbound /\ Pe = Unbound
    /\ tau_0 = Unbound /\ Re = Unbound
    /\ results_df = NotShown /\ csv_data = NoPayload

\* ------------------------------------------------------------------------
\* The script
\* ------------------------------------------------------------------------
\* the sidebar is read and the uploader returns its file
ReadInputs(w, file) ==
    /\ D' = w.D /\ L' = w.L /\ epsilon' = w.epsilon
    /\ Dp' = w.Dp /\ mu' = w.mu /\ rho' = w.rho
    /\ A' = CrossSectionArea(w.D)
    /\ uploaded_file' = file

\* if uploaded_file: is false, the script ends
NoUpload ==
    /\ pc = "start"
    /\ \E w \in Sidebars : ReadInputs(w, NoFile)
    /\ pc' = "done"
    /\ UNCHANGED <<df, error, results, plots, run_ids, locals, outputs>>

\* pd.read_csv and the stripping of the column names
LoadFile(w, file) ==
    /\ ReadInputs(w, file)
    /\ df' = StripColumns(file)

\* The sessions that are enumerated: every sidebar with the well-formed
\* multi-run files; the default sidebar with every column layout of those
\* files; the default sidebar with the single-run traces.
ReadCsv ==
    /\ pc = "start"
    /\ \/ \E w \in Sidebars, m \in 0..MaxRows :
            \E fr \in [1..m -> Flows \X Runs] :
               LoadFile(w, CsvFile(FALSE, 0, GroupTable(fr)))
       \/ \E pad \in BOOLEAN, drop \in 0..4, m \in 0..MaxRows :
            \E fr \in [1..m -> Flows \X Runs] :
               LoadFile(DefaultWidgets, CsvFile(pad, drop, GroupTable(fr)))
       \/ \E m \in 0..MaxSamples, q \in Flows \ {0} :
            \E tc \in [1..m -> (0..MaxTime) \X Concentrations] :
               LoadFile(DefaultWidgets, CsvFile(FALSE, 0, TraceTable(tc, q)))
    /\ pc' = "check"
    /\ UNCHANGED <<error, results, plots, run_ids, locals, outputs>>

\* a required column is missing: the error is shown and nothing is computed
MissingColumns ==
    /\ pc = "check"
    /\ ~HasRequiredColumns(df)
    /\ error' = TRUE
    /\ pc' = "done"
    /\ UNCHANGED <<sidebar, uploaded_file, df, results, plots, run_ids,
                   locals, outputs>>

\* results = [], plots = {} and the loop over df['Run'].unique() begins
StartLoop ==
    /\ pc = "check"
    /\ HasRequiredColumns(df)
    /\ results' = <<>>
    /\ plots' = <<>>
    /\ run_ids' = Unique(Column(df, RunCol))
    /\ pc' = "loop"
    /\ UNCHANGED <<sidebar, uploaded_file, df, error, locals, outputs>>

\* one pass of the loop body: the next run is computed, its row appended
\* and its curve kept
ProcessRun ==
    /\ pc = "loop"
    /\ run_ids # <<>>
    /\ run_id' = Head(run_ids)
    /\ LET run_data == RunData(df, Head(run_ids))
       IN  /\ t' = [i \in 1..Len(run_data.rows) |->
                      ToFloat(Column(run_data, TimeCol)[i])]
           /\ C' = ClipAtZero([i \in 1..Len(run_data.rows) |->
                      ToFloat(Column(run_data, ConcCol)[i])])
           /\ Q_mL_min' = FlowRateOf(run_data)
    /\ Q' = VolumetricFlow(Q_mL_min')
    /\ v' = SuperficialVelocity(Q', A)
    /\ E' = Normalize(C', t')
    /\ tau' = FirstMoment(t', E')
    /\ sigma_squared' = CentralMoment(t', E', tau')
    /\ D_ax' = AxialDispersion(sigma_squared', v')
    /\ Pe' = Peclet(L, v', D_ax')
    /\ tau_0' = SpaceTime(epsilon, A, L, Q')
    /\ Re' = Reynolds(Dp, v', rho, epsilon, mu)
    /\ results' = Append(results,
           ResultRow(run_id', Q_mL_min', tau', sigma_squared', D_ax', Pe',
                     tau_0', Re'))
    /\ plots' = Append(plots,
           [run_id |-> run_id', t |-> t', E |-> E', tau |-> tau'])
    /\ run_ids' = Tail(run_ids)
    /\ pc' = "loop"
    /\ UNCHANGED <<sidebar, uploaded_file, df, error, outputs>>

\* after the loop: the summary table, its CSV payload and the plots are shown
Display ==
    /\ pc = "loop"
    /\ run_ids = <<>>
    /\ results_df' = [shown |-> TRUE, rows |-> results]
    /\ csv_data' = [shown |-> TRUE] @@ ToCsv(results)
    /\ pc' = "done"
    /\ UNCHANGED <<sidebar, uploaded_file, df, error, results, plots, run_ids,
                   locals>>

Next ==
    \/ NoUpload
    \/ ReadCsv
    \/ MissingColumns
    \/ StartLoop
    \/ ProcessRun
    \/ Display

Spec == Init /\ [][Next]_vars

\* ------------------------------------------------------------------------
\* Properties
\* ------------------------------------------------------------------------
\* a run has been processed: the loop variables hold its values and the
\* last row of results is its row
Processed == Len(results) > 0

LastRow == results[Len(results)]

\* the cells of one column in the rows of run id, in file order
RawColumn(id, col) == Column(RunData(df, id), col)

\* the uploaded table lacks a required column, names compared after trimming
LacksRequiredColumn ==
    /\ uploaded_file.present
    /\ \E j \in 1..Len(required_cols) :
          \A i \in 1..Len(uploaded_file.columns) :
             Strip(uploaded_file.columns[i]) # required_cols[j]

\* C1: a table that lacks one of the four required columns (after trimming
\* the names) ends in the schema error, before any grouping or computing:
\* no run is processed and no results table, CSV payload or curve exists.
C1_SchemaErrorBeforeAnyRun ==
    LacksRequiredColumn =>
        /\ pc \in {"check", "done"}
        /\ pc = "done" => error
        /\ run_ids = <<>> /\ run_id = 0 /\ t = <<>> /\ E = <<>>
        /\ results = <<>> /\ plots = <<>>
        /\ ~results_df.shown /\ ~csv_data.shown

C1_Witness ==
    /\ pc = "done" /\ error
    /\ LacksRequiredColumn
    /\ Len(uploaded_file.rows) >= 2
    /\ \E i \in 1..Len(uploaded_file.columns) :
          uploaded_file.columns[i] # Strip(uploaded_file.columns[i])

\* the position of the first row of the table whose run is id
FirstRowOf(id) ==
    CHOOSE r \in 1..Len(df.rows) :
        /\ Column(df, RunCol)[r] = id
        /\ \A q \in 1..(r - 1) : Column(df, RunCol)[q] # id

\* C2: the results table has exactly one row per distinct run identifier,
\* in the order in which the identifiers first appear in the input rows,
\* interleaved or not.
C2_OneRowPerRunInFirstSeenOrder ==
    results_df.shown =>
        LET rows == results_df.rows
            ids  == {Column(df, RunCol)[r] : r \in 1..Len(df.rows)}
        IN  /\ \A x \in ids :
                  Cardinality({i \in 1..Len(rows) : rows[i].Run = x}) = 1
            /\ \A i \in 1..Len(rows) : rows[i].Run \in ids
            /\ \A i, j \in 1..Len(rows) :
                  i < j => FirstRowOf(rows[i].Run) < FirstRowOf(rows[j].Run)

C2_Witness ==
    /\ results_df.shown
    /\ Column(df, RunCol) = <<2, 1, 2>>
    /\ Len(results_df.rows) = 2
    /\ results_df.rows[1].Run = 2 /\ results_df.rows[2].Run = 1

\* C3: every division of the pipeline whose denominator is zero (A = 0 in
\* v = Q / A, D_ax = 0 in Pe, Q = 0 in tau_0, (1 - epsilon) * mu = 0 in Re)
\* leaves not-a-number in the result fields it feeds, never an infinity or
\* an ordinary number.  (C / totalArea feeds the curve, not a result field.)
C3_ZeroDenominatorIsUndefined ==
    Processed =>
        /\ IsZero(A) =>
              /\ LastRow.AxialDispersion.k = "nan"
              /\ LastRow.Peclet.k = "nan"
              /\ LastRow.Reynolds.k = "nan"
        /\ IsZero(D_ax) => LastRow.Peclet.k = "nan"
        /\ IsZero(Q) => IsNaN(LastRow.SpaceTime)
        /\ IsZero(FMul(FSub(One, epsilon), mu)) => LastRow.Reynolds.k = "nan"

\* C4: a run whose flow rate is 0 (with D > 0) has D_ax, Pe and tau_0
\* undefined, it still gets its row, and the other runs are computed as
\* usual: the table is completed with one row per run, and the rows of the
\* runs with a nonzero flow hold numbers.
C4_ZeroFlowIsUndefinedAndContinues ==
    /\ (Processed /\ Q_mL_min = 0 /\ ~IsZero(D)) =>
          /\ IsNaN(D_ax) /\ IsNaN(Pe) /\ IsNaN(tau_0)
          /\ LastRow.Run = run_id
          /\ LastRow.FlowRate = 0
          /\ LastRow.AxialDispersion.k = "nan"
          /\ LastRow.Peclet.k = "nan"
          /\ IsNaN(LastRow.SpaceTime)
    /\ (results_df.shown /\ ~IsZero(D)) =>
          /\ Len(results_df.rows) =
                Cardinality({Column(df, RunCol)[r] : r \in 1..Len(df.rows)})
          /\ \A i \in 1..Len(results_df.rows) :
                LET row == results_df.rows[i]
                IN  IF row.FlowRate = 0
                    THEN /\ row.AxialDispersion.k = "nan"
                         /\ row.Peclet.k = "nan"
                         /\ IsNaN(row.SpaceTime)
                    ELSE /\ row.AxialDispersion.k = "fin"
                         /\ IsFin(row.SpaceTime)
                         /\ IsFin(row.MeanResidenceTime)

C4_Witness ==
    /\ results_df.shown /\ ~IsZero(D)
    /\ Len(results_df.rows) = 2
    /\ results_df.rows[1].FlowRate = 0
    /\ results_df.rows[2].FlowRate # 0
    /\ results_df.rows[2].Peclet.k = "fin"

\* C5: a run with fewer than 2 samples is not integrated: its row carries
\* no mean residence time and no variance (it fails as InsufficientSamples)
\* instead of the zeros of the degenerate zero-area case.
C5_InsufficientSamplesFails ==
    (Processed /\ Len(t) < 2) =>
        /\ ~IsFin(LastRow.MeanResidenceTime)
        /\ ~IsFin(LastRow.Variance)

\* the trapezoidal integral of the clipped concentration of the last run
TotalArea == trapezoid(C, t)

\* C6: a run whose integral of the clipped concentration is exactly 0, in
\* particular one whose concentrations are all 0, has E(t) = 0 at every
\* sample, tau = 0 and variance 0, and its Peclet number (which divides by
\* D_ax = variance * v^3 / 2) is undefined when v is not 0.
C6_DegenerateDistribution ==
    (Processed /\ (IsZero(TotalArea) \/ \A i \in 1..Len(C) : IsZero(C[i]))) =>
        /\ \A i \in 1..Len(E) : IsZero(E[i])
        /\ Len(E) = Len(t)
        /\ IsZero(tau) /\ IsZero(sigma_squared)
        /\ IsZero(LastRow.MeanResidenceTime) /\ IsZero(LastRow.Variance)
        /\ FNe(v, Zero) => IsNaN(Pe) /\ LastRow.Peclet.k = "nan"

C6_Witness ==
    /\ Processed
    /\ Len(C) = 3
    /\ \A i \in 1..Len(C) : IsZero(C[i])
    /\ IsFin(v) /\ FNe(v, Zero)
    /\ IsZero(D_ax) /\ IsNaN(Pe)

\* C7: for a run with at least 2 samples and a nonzero total area, the
\* trapezoidal integral of E(t) over the run's time grid is 1.
C7_NormalizedCurveIntegratesToOne ==
    (Processed /\ Len(t) >= 2 /\ FNe(TotalArea, Zero)) =>
        trapezoid(E, t) = One

C7_Witness ==
    /\ Processed
    /\ Len(t) = 3
    /\ FNe(TotalArea, Zero) /\ TotalArea # One
    /\ \E i \in 1..Len(E) : E[i].d # 1

\* the constants by which the time axis is shifted
Shifts == {Fin(-1, 1), Fin(1, 2)}

\* tau and the variance of the run that the loop has just processed,
\* computed again with every time t of the run replaced by t + c
Shifted(c) ==
    LET times == [i \in 1..Len(t) |-> FAdd(t[i], c)]
        curve == Normalize(C, times)
        mean  == FirstMoment(times, curve)
    IN  [tau |-> mean, sigma_squared |-> CentralMoment(times, curve, mean)]

\* C8 as stated: for every run, zero total area included, replacing every
\* time t by t + c changes tau by exactly c and leaves the variance as it is.
C8_ShiftMovesTauForEveryRun ==
    (Processed /\ pc = "loop") =>
        \A c \in Shifts :
            /\ Shifted(c).tau = FAdd(tau, c)
            /\ Shifted(c).sigma_squared = sigma_squared

\* C8 amended: replacing every time t by t + c leaves the variance as it
\* is; it changes tau by exactly c when the total area is not zero, and
\* leaves tau at 0 when the total area is zero.
C8_ShiftMovesTauWhenAreaNonzero ==
    (Processed /\ pc = "loop") =>
        \A c \in Shifts :
            LET shifted == Shifted(c)
            IN  /\ shifted.sigma_squared = sigma_squared
                /\ FNe(TotalArea, Zero) => shifted.tau = FAdd(tau, c)
                /\ IsZero(TotalArea) => shifted.tau = Zero /\ tau = Zero

C8_Witness ==
    /\ Processed /\ pc = "loop"
    /\ Len(t) = 3
    /\ FNe(TotalArea, Zero)
    /\ FNe(sigma_squared, Zero)
    /\ Shifted(Fin(1, 2)).tau = FAdd(tau, Fin(1, 2))
    /\ Shifted(Fin(1, 2)).tau # tau

\* C9: the flow rate used for Q, v and the derived quantities, and reported
\* in the row, is the one of the first row of the run in file order; the
\* flow rates of the run's other rows change nothing.
C9_FlowRateOfFirstRow ==
    Processed =>
        LET first == df.rows[FirstRowOf(run_id)][ColumnIndex(df, FlowCol)]
        IN  /\ Q_mL_min = first
            /\ LastRow.FlowRate = first
            /\ LastRow.Run = run_id
            /\ Q = Fin(first, 60000000)
            /\ first = 0 => IsZero(Q) /\ IsNaN(tau_0) /\ IsNaN(D_ax)
            /\ (first # 0 /\ ~IsZero(A)) =>
                  /\ FMul(v, A) = Q
                  /\ FMul(tau_0, Q) = FMul(FMul(epsilon, A), L)
                  /\ IsFin(D_ax)

C9_Witness ==
    /\ Processed
    /\ \E r \in 1..Len(df.rows) :
          /\ Column(df, RunCol)[r] = run_id
          /\ Column(df, FlowCol)[r] # Q_mL_min
    /\ Q_mL_min # 0
    /\ IsFin(tau_0)

StrictlyIncreasing(s) == \A i \in 1..(Len(s) - 1) : FLt(s[i], s[i + 1])

\* C10: concentrations below zero are replaced by zero before integrating,
\* so for a run with strictly increasing times every value of E(t) is >= 0,
\* and a run whose concentrations are all <= 0 has the all-zero curve.
C10_ClippedCurveIsNonNegative ==
    Processed =>
        LET raw == RawColumn(run_id, ConcCol)
        IN  /\ Len(C) = Len(raw)
            /\ \A i \in 1..Len(C) :
                  C[i] = (IF raw[i] < 0 THEN Zero ELSE Fin(raw[i], 1))
            /\ StrictlyIncreasing(t) =>
                  \A i \in 1..Len(E) : IsFin(E[i]) /\ E[i].n >= 0
            /\ (\A i \in 1..Len(raw) : raw[i] <= 0) =>
                  \A i \in 1..Len(E) : IsZero(E[i])

C10_Witness ==
    /\ Processed
    /\ Len(t) = 3 /\ StrictlyIncreasing(t)
    /\ \E i \in 1..Len(t) : RawColumn(run_id, ConcCol)[i] < 0
    /\ \E i \in 1..Len(E) : E[i].n > 0

====
